---------------------------- MODULE Spec2Model ----------------------------
(***************************************************************************)
(* A model of nn_lib.py: the layers, the stacked network                   *)
(* (MultiLayerNetwork), the mini-batch trainer (Trainer) and the min-max   *)
(* Preprocessor.                                                           *)
(*                                                                         *)
(* Arrays are modelled by what the properties need of them: their shape,   *)
(* their rows, or float64 entries.  Python exceptions are modelled by an   *)
(* exception name; "none" means the call returned normally.                *)
(***************************************************************************)
EXTENDS Integers, Sequences, FiniteSets, TLC

VARIABLES
    \* ---- construction of MultiLayerNetwork and Trainer
    net_args,     \* the arguments of the last MultiLayerNetwork(...) call
    net,          \* the object that call returned, or NoObject
    net_exc,      \* the exception that call raised, or "none"
    loss_fun,     \* the loss_fun argument of the last Trainer(...) call
    trainer,      \* the object that call returned, or NoObject
    trainer_exc,  \* the exception that call raised, or "none"
    \* ---- Trainer.train
    t_pc,         \* where the call of train stands
    t_self,       \* the trainer's fields: batch_size, nb_epoch, shuffle_flag
    t_data,       \* the locals input_dataset and target_dataset (rebound by shuffle)
    t_loop,       \* the locals n_batches, epoch, batch_list and the batch index
    t_net,        \* what the network and loss layer hold: caches, gradients, grad_z
    t_calls,      \* the calls made on the network and loss layer, in order
    \* ---- Trainer.shuffle
    s_call,       \* the arguments of the last shuffle call: the caller's arrays
    s_ret,        \* what that call returned or raised
    \* ---- Preprocessor
    prep,         \* the Preprocessor object: max_data, min_data (or NoObject)
    p_data,       \* the fitting dataset and the dataset handed to apply
    p_applied,    \* what apply returned
    p_reverted,   \* what revert returned for it
    \* ---- MultiLayerNetwork.forward / backward / update_params
    n_net,        \* the network object: its layers with their caches and gradients
    n_pc,         \* "new", "ready", "forward", "backward" or "raised"
    n_frame,      \* the running call: its loop position and the array passed on
    n_calls,      \* the number of forward/backward/update_params calls so far
    n_log,        \* the layer calls the running (or last) call made, in order
    n_last,       \* arguments and results of the last forward and backward
    \* ---- MSELossLayer
    m_layer,      \* the MSELossLayer object: _cache_current
    m_loss,       \* what the last forward returned
    m_grad        \* what the last backward returned or raised

ctorVars == <<net_args, net, net_exc, loss_fun, trainer, trainer_exc>>

trainVars == <<t_pc, t_self, t_data, t_loop, t_net, t_calls>>

shuffleVars == <<s_call, s_ret>>

prepVars == <<prep, p_data, p_applied, p_reverted>>

netVars == <<n_net, n_pc, n_frame, n_calls, n_log, n_last>>

mseVars == <<m_layer, m_loss, m_grad>>

vars == <<ctorVars, trainVars, shuffleVars, prepVars, netVars, mseVars>>

----------------------------------------------------------------------------
(* Bounds of the model *)

\* most layers of a network (length of `neurons`)
MaxLayers == 2
\* longest `activations` list
MaxActs == 3
\* largest input_dim / neuron count
MaxDim == 2
\* most rows of a training dataset
MaxRows == 3
\* largest batch_size
MaxBatch == 4
\* largest nb_epoch
MaxEpochs == 2
\* most rows of a dataset handed to shuffle
MaxShuffleRows == 2
\* most columns of a dataset handed to shuffle
MaxShuffleCols == 2
\* largest entry of a dataset handed to shuffle
MaxValue == 1
\* most rows and columns of a dataset handed to the Preprocessor
MaxPrepRows == 2
MaxPrepCols == 2
\* largest entry of a dataset handed to the Preprocessor
MaxPrepValue == 2
\* largest batch size of an array handed to forward or backward
MaxNetBatch == 2
\* most forward/backward/update_params calls on one network
MaxCalls == 3
\* most rows (batch_size) and columns of y_pred and y_target
MaxLossRows == 2
MaxLossCols == 2
\* largest entry of y_pred and y_target
MaxLossValue == 1

----------------------------------------------------------------------------
(* Generic helpers *)

NoObject == [class |-> "None"]

NoArgs == [given |-> FALSE]

SeqsUpTo(S, n) == UNION {[1..k -> S] : k \in 0..n}

Min(a, b) == IF a <= b THEN a ELSE b

----------------------------------------------------------------------------
(* Layer constructors *)

\* An attribute the object does not have yet
Unset == [class |-> "unset"]

\* ReluLayer.__init__: f_prime is no attribute before the first backward
ReluLayerInit == [class |-> "ReluLayer", _cache_current |-> NoObject,
                  f_prime |-> Unset, cache_call |-> 0]

\* SigmoidLayer.__init__: self.f_prime = 0
SigmoidLayerInit == [class |-> "SigmoidLayer", _cache_current |-> NoObject,
                     f_prime |-> [class |-> "int", value |-> 0],
                     cache_call |-> 0]

\* LinearLayer.__init__(self, n_in, n_out): `args` are the positional
\* arguments of the call.  Both are required: a call with another number
\* of arguments raises TypeError before the body runs.  _W and _b are
\* known by their shapes; batch_size is no attribute yet ("unset");
\* cache_call records the network call that last wrote _cache_current.
LinearLayerInit(args) ==
    IF Len(args) # 2
    THEN [exc |-> "TypeError", obj |-> NoObject]
    ELSE [exc |-> "none",
          obj |-> [class |-> "LinearLayer",
                   n_in |-> args[1], n_out |-> args[2],
                   _W |-> [class |-> "ndarray", shape |-> <<args[1], args[2]>>],
                   _b |-> [class |-> "ndarray", shape |-> <<1, args[2]>>],
                   _cache_current |-> NoObject,
                   _grad_W_current |-> NoObject,
                   _grad_b_current |-> NoObject,
                   batch_size |-> "unset",
                   cache_call |-> 0]]

\* The activation names the lookup accepts silently in the mutant: an
\* unknown name falls back to ReluLayer instead of raising.
find_activation_func_fallback(activations, index) ==
    IF index + 1 > Len(activations)
    THEN [exc |-> "IndexError", obj |-> NoObject]
    ELSE IF activations[index + 1] = "linear"
    THEN LinearLayerInit(<<>>)
    ELSE IF activations[index + 1] = "sigmoid"
    THEN [exc |-> "none", obj |-> SigmoidLayerInit]
    ELSE [exc |-> "none", obj |-> ReluLayerInit]

\* MultiLayerNetwork.find_activation_func(self, index); index is 0-based
\* as in the code, the sequence 1-based.
find_activation_func(activations, index) ==
    IF index + 1 > Len(activations)
    THEN [exc |-> "IndexError", obj |-> NoObject]
    ELSE IF activations[index + 1] = "relu"
    THEN [exc |-> "none", obj |-> ReluLayerInit]
    ELSE IF activations[index + 1] = "linear"
    THEN LinearLayerInit(<<>>)
    ELSE IF activations[index + 1] = "sigmoid"
    THEN [exc |-> "none", obj |-> SigmoidLayerInit]
    ELSE [exc |-> "AssertionError", obj |-> NoObject]

\* self.feature_list = [self.input_dim] + self.neurons
feature_list(input_dim, neurons) == <<input_dim>> \o neurons

\* The loop of MultiLayerNetwork.__init__ from `index` on, `layers` being
\* self._layers so far.  Each iteration builds the LinearLayer first and
\* then looks the activation up; the first exception ends the constructor.
RECURSIVE BuildLayers(_, _, _, _)
BuildLayers(input_dim, neurons, activations, layers) ==
    LET index == Len(layers) IN
    IF index >= Len(neurons)
    THEN [exc |-> "none", layers |-> layers]
    ELSE LET fl  == feature_list(input_dim, neurons)
             lin == LinearLayerInit(<<fl[index + 1], fl[index + 2]>>)
             act == find_activation_func(activations, index)
         IN IF lin.exc # "none" THEN [exc |-> lin.exc, layers |-> <<>>]
            ELSE IF act.exc # "none" THEN [exc |-> act.exc, layers |-> <<>>]
            ELSE BuildLayers(input_dim, neurons, activations,
                             Append(layers, <<lin.obj, act.obj>>))

\* MultiLayerNetwork.__init__(self, input_dim, neurons, activations)
MultiLayerNetworkInit(input_dim, neurons, activations) ==
    LET built == BuildLayers(input_dim, neurons, activations, <<>>) IN
    IF built.exc # "none"
    THEN [exc |-> built.exc, obj |-> NoObject]
    ELSE [exc |-> "none",
          obj |-> [class |-> "MultiLayerNetwork",
                   input_dim |-> input_dim,
                   neurons |-> neurons,
                   activations |-> activations,
                   _layers |-> built.layers]]

----------------------------------------------------------------------------
(* Trainer.__init__ *)

\* A Python str object: its value and whether it is the interpreter's
\* interned object for that value (a literal of identifier shape is) or a
\* separate object with the same value (one built at run time: read from a
\* file, joined, sliced, formatted).
StrObjects(values) == [value : values, interned : BOOLEAN]

\* `a is 'literal'`: object identity with the code's interned literal.
Is(a, literal) == a.value = literal /\ a.interned

\* The if/elif/else of Trainer.__init__ that installs self._loss_layer.
SelectLoss(lf) ==
    IF Is(lf, "mse") THEN [exc |-> "none", obj |-> "MSELossLayer"]
    ELSE IF Is(lf, "softmax_cross_entropy")
    THEN [exc |-> "none", obj |-> "CrossEntropyLossLayer"]
    ELSE [exc |-> "Exception", obj |-> "None"]

\* Trainer.__init__(network, batch_size, nb_epoch, learning_rate,
\*                  loss_fun, shuffle_flag), the fields the claims read.
TrainerInit(network, lf) ==
    LET sel == SelectLoss(lf) IN
    IF sel.exc # "none"
    THEN [exc |-> sel.exc, obj |-> NoObject]
    ELSE [exc |-> "none",
          obj |-> [class |-> "Trainer",
                   multilayer_network |-> network,
                   loss_fun |-> lf,
                   _loss_layer |-> sel.obj]]

----------------------------------------------------------------------------
(* Trainer.train and Trainer.eval_loss *)

(***************************************************************************)
(* An array is its number of dimensions, its shape and its entries: the    *)
(* rows of a 2-D array, each a sequence of its columns' values.  What a    *)
(* layer caches, and a gradient, is modelled by the batch it was computed  *)
(* from.                                                                   *)
(***************************************************************************)

Nothing == [of |-> "None"]

Array2(rows, ncols) == [ndim |-> 2, shape |-> <<Len(rows), ncols>>, data |-> rows]

Array1(values) == [ndim |-> 1, shape |-> <<Len(values)>>, data |-> values]

Max(a, b) == IF a >= b THEN a ELSE b

\* A Python slice bound on an axis of length n: a negative one counts
\* from the end, and both are clipped to 0..n.
SliceBound(i, n) == IF i < 0 THEN Max(i + n, 0) ELSE Min(i, n)

\* s[start:stop] of a sequence
PySlice(s, start, stop) ==
    LET lo == SliceBound(start, Len(s))
        hi == SliceBound(stop, Len(s))
    IN IF lo >= hi THEN <<>> ELSE [i \in 1..(hi - lo) |-> s[lo + i]]

\* a[start:stop] of a 2-D array: a range of its rows
Rows(a, start, stop) == Array2(PySlice(a.data, start, stop), a.shape[2])

\* a[:, start:stop] of a 2-D array: a range of its columns
Cols(a, start, stop) ==
    LET lo == SliceBound(start, a.shape[2])
        hi == SliceBound(stop, a.shape[2])
    IN Array2([i \in 1..a.shape[1] |-> PySlice(a.data[i], start, stop)],
              IF lo >= hi THEN 0 ELSE hi - lo)

\* np.hstack((a, b)): ValueError unless both have the same number of
\* dimensions and, for 2-D arrays, the same number of rows; 1-D arrays are
\* joined end to end, 2-D arrays row beside row.
HStack(a, b) ==
    IF a.ndim # b.ndim THEN [exc |-> "ValueError", arr |-> Nothing]
    ELSE IF a.ndim = 1 THEN [exc |-> "none", arr |-> Array1(a.data \o b.data)]
    ELSE IF a.shape[1] # b.shape[1] THEN [exc |-> "ValueError", arr |-> Nothing]
    ELSE [exc |-> "none",
          arr |-> Array2([i \in 1..a.shape[1] |-> a.data[i] \o b.data[i]],
                         a.shape[2] + b.shape[2])]

\* target_dataset.shape[1]: IndexError on a 1-D array
Shape1(a) == IF a.ndim < 2 THEN [exc |-> "IndexError", n |-> 0]
             ELSE [exc |-> "none", n |-> a.shape[2]]

\* np.random.shuffle(a) with the row permutation p drawn: row i of the
\* result is row p[i] of a.
ShuffleRows(a, p) == [a EXCEPT !.data = [i \in 1..Len(a.data) |-> a.data[p[i]]]]

\* Trainer.shuffle(input_dataset, target_dataset), p being the permutation
\* np.random.shuffle draws.
Shuffle(input_dataset, target_dataset, p) ==
    LET stacked == HStack(input_dataset, target_dataset) IN
    IF stacked.exc # "none"
    THEN [exc |-> stacked.exc, inputs |-> Nothing, targets |-> Nothing]
    ELSE LET stacked_data == ShuffleRows(stacked.arr, p)
             tw == Shape1(target_dataset)
         IN IF tw.exc # "none"
            THEN [exc |-> tw.exc, inputs |-> Nothing, targets |-> Nothing]
            ELSE [exc |-> "none",
                  inputs |-> Cols(stacked_data, 0, -tw.n),
                  targets |-> Cols(stacked_data, -tw.n, stacked_data.shape[2])]

\* np.vsplit(ary, sections) for an integer `sections`: ValueError unless
\* sections > 0 and divides the number of rows.
VSplit(ary, sections) ==
    IF sections <= 0 THEN [exc |-> "ValueError", list |-> <<>>]
    ELSE IF ary.shape[1] % sections # 0 THEN [exc |-> "ValueError", list |-> <<>>]
    ELSE LET each == ary.shape[1] \div sections IN
         [exc |-> "none",
          list |-> [b \in 1..sections |-> Rows(ary, (b - 1) * each, b * each)]]

\* Lines 509-511 of train: the batch list of one epoch.
BatchList(data, n_batches, batch_size) ==
    LET split == VSplit(Rows(data, 0, n_batches * batch_size), n_batches) IN
    IF split.exc # "none" THEN split
    ELSE IF n_batches * batch_size # data.shape[1]
    THEN [exc |-> "none",
          list |-> Append(split.list,
                          Rows(data, n_batches * batch_size, data.shape[1]))]
    ELSE split

\* batch[:, :-target_dataset.shape[1]]
InputColumns(batch, target_dataset) == Cols(batch, 0, -(target_dataset.shape[2]))

\* batch[:, -target_dataset.shape[1]:]
TargetColumns(batch, target_dataset) ==
    Cols(batch, -(target_dataset.shape[2]), batch.shape[2])

\* The permutations of 1..n
Perms(n) == {p \in [1..n -> 1..n] : \A i, j \in 1..n : p[i] = p[j] => i = j}

TrainIdle ==
    /\ t_pc = "idle"
    /\ t_self = NoArgs
    /\ t_data = NoArgs
    /\ t_loop = NoArgs
    /\ t_net = [cache |-> Nothing, loss_cache |-> Nothing, grad_z |-> Nothing,
                grads |-> Nothing, n_updates |-> 0]
    /\ t_calls = <<>>

\* trainer.train(input_dataset, target_dataset) is entered: line 501.
TrainCall ==
    /\ t_pc = "idle"
    /\ \E n \in 1..MaxRows, batch_size \in 1..MaxBatch,
          nb_epoch \in 0..MaxEpochs, shuffle_flag \in BOOLEAN :
          /\ t_self' = [given |-> TRUE, batch_size |-> batch_size,
                        nb_epoch |-> nb_epoch, shuffle_flag |-> shuffle_flag,
                        n_rows |-> n]
          /\ t_data' = [given |-> TRUE,
                        input_dataset |-> Array2([i \in 1..n |-> <<i>>], 1),
                        target_dataset |-> Array2([i \in 1..n |-> <<i>>], 1)]
          /\ t_loop' = [given |-> TRUE, n_batches |-> n \div batch_size,
                        epoch |-> 0, batch_list |-> <<>>, k |-> 0]
    /\ t_pc' = "epoch"
    /\ UNCHANGED <<t_net, t_calls>>
    /\ UNCHANGED <<ctorVars, shuffleVars, prepVars, netVars, mseVars>>

\* The head of one epoch, lines 503-511: the shuffle (if shuffle_flag),
\* the stacking and the split into batches; vsplit may raise.
EpochBegin ==
    /\ t_pc = "epoch"
    /\ t_loop.epoch < t_self.nb_epoch
    /\ \E p \in Perms(t_self.n_rows) :
          /\ ~t_self.shuffle_flag => \A i \in 1..t_self.n_rows : p[i] = i
          /\ LET shuffled == Shuffle(t_data.input_dataset, t_data.target_dataset, p)
                 input_dataset == IF t_self.shuffle_flag THEN shuffled.inputs
                                  ELSE t_data.input_dataset
                 target_dataset == IF t_self.shuffle_flag THEN shuffled.targets
                                   ELSE t_data.target_dataset
                 data == HStack(input_dataset, target_dataset).arr
                 bl == BatchList(data, t_loop.n_batches, t_self.batch_size)
             IN /\ t_data' = [t_data EXCEPT !.input_dataset = input_dataset,
                                            !.target_dataset = target_dataset]
                /\ t_loop' = [t_loop EXCEPT !.batch_list = bl.list, !.k = 0]
                /\ t_pc' = IF bl.exc # "none" THEN "raised" ELSE "batch"
    /\ UNCHANGED <<t_self, t_net, t_calls>>
    /\ UNCHANGED <<ctorVars, shuffleVars, prepVars, netVars, mseVars>>

CurrentBatch == t_loop.batch_list[t_loop.k + 1]

BatchId == [epoch |-> t_loop.epoch, k |-> t_loop.k]

\* eval_loss line 536: prediction = self.multilayer_network.forward(input)
EvalLossForward ==
    /\ t_pc = "batch"
    /\ t_loop.k < Len(t_loop.batch_list)
    /\ t_net' = [t_net EXCEPT !.cache = [of |-> BatchId,
                                         rows |-> InputColumns(CurrentBatch, t_data.target_dataset)]]
    /\ t_calls' = Append(t_calls, <<"forward", BatchId>>)
    /\ t_pc' = "forwarded"
    /\ UNCHANGED <<t_self, t_data, t_loop>>
    /\ UNCHANGED <<ctorVars, shuffleVars, prepVars, netVars, mseVars>>

\* eval_loss lines 538-539: the loss of the prediction against the batch's
\* targets, and self.grad_z = self._loss_layer.backward()
EvalLossLoss ==
    /\ t_pc = "forwarded"
    /\ LET lc == [of |-> BatchId, pred |-> t_net.cache,
                  rows |-> TargetColumns(CurrentBatch, t_data.target_dataset)]
       IN t_net' = [t_net EXCEPT !.loss_cache = lc, !.grad_z = lc]
    /\ t_calls' = Append(t_calls, <<"loss", BatchId>>)
    /\ t_pc' = "loss"
    /\ UNCHANGED <<t_self, t_data, t_loop>>
    /\ UNCHANGED <<ctorVars, shuffleVars, prepVars, netVars, mseVars>>

\* train line 515: self.multilayer_network.backward(self.grad_z)
TrainBackward ==
    /\ t_pc = "loss"
    /\ t_net' = [t_net EXCEPT !.grads = [of |-> BatchId, cache |-> t_net.cache,
                                         grad_z |-> t_net.grad_z]]
    /\ t_calls' = Append(t_calls, <<"backward", BatchId>>)
    /\ t_pc' = "backwarded"
    /\ UNCHANGED <<t_self, t_data, t_loop>>
    /\ UNCHANGED <<ctorVars, shuffleVars, prepVars, netVars, mseVars>>

\* train lines 516-517: update_params(self.learning_rate), next batch
TrainUpdate ==
    /\ t_pc = "backwarded"
    /\ t_net' = [t_net EXCEPT !.n_updates = @ + 1]
    /\ t_calls' = Append(t_calls, <<"update_params", BatchId>>)
    /\ t_loop' = [t_loop EXCEPT !.k = @ + 1]
    /\ t_pc' = "batch"
    /\ UNCHANGED <<t_self, t_data>>
    /\ UNCHANGED <<ctorVars, shuffleVars, prepVars, netVars, mseVars>>

\* The batch loop of an epoch is exhausted: the next epoch.
EpochEnd ==
    /\ t_pc = "batch"
    /\ t_loop.k = Len(t_loop.batch_list)
    /\ t_loop' = [t_loop EXCEPT !.epoch = @ + 1]
    /\ t_pc' = "epoch"
    /\ UNCHANGED <<t_self, t_data, t_net, t_calls>>
    /\ UNCHANGED <<ctorVars, shuffleVars, prepVars, netVars, mseVars>>

\* line 518: return loss_arr
TrainReturn ==
    /\ t_pc = "epoch"
    /\ t_loop.epoch = t_self.nb_epoch
    /\ t_pc' = "done"
    /\ UNCHANGED <<t_self, t_data, t_loop, t_net, t_calls>>
    /\ UNCHANGED <<ctorVars, shuffleVars, prepVars, netVars, mseVars>>

TrainNext ==
    \/ TrainCall
    \/ EpochBegin
    \/ EvalLossForward
    \/ EvalLossLoss
    \/ TrainBackward
    \/ TrainUpdate
    \/ EpochEnd
    \/ TrainReturn

----------------------------------------------------------------------------
(* The construction state machine *)

ActivationNames == {"relu", "linear", "sigmoid", "identity"}

RecognisedActivations == {"relu", "linear", "sigmoid"}

LossNames == {"mse", "softmax_cross_entropy", "bce", "cross_entropy"}

\* "Possible values: mse, bce" (the docstring of Trainer.__init__)
DocstringLossNames == {"mse", "bce"}

CtorIdle ==
    /\ net_args = NoArgs
    /\ net = NoObject
    /\ net_exc = "none"
    /\ loss_fun = NoArgs
    /\ trainer = NoObject
    /\ trainer_exc = "none"

\* net = MultiLayerNetwork(input_dim, neurons, activations)
NewNetwork ==
    /\ net_args = NoArgs
    /\ \E input_dim \in 1..MaxDim,
          neurons \in SeqsUpTo(1..MaxDim, MaxLayers),
          activations \in SeqsUpTo(ActivationNames, MaxActs) :
          LET r == MultiLayerNetworkInit(input_dim, neurons, activations) IN
          /\ net_args' = [given |-> TRUE, input_dim |-> input_dim,
                          neurons |-> neurons, activations |-> activations]
          /\ net' = r.obj
          /\ net_exc' = r.exc
    /\ UNCHANGED <<loss_fun, trainer, trainer_exc>>
    /\ UNCHANGED <<trainVars, shuffleVars, prepVars, netVars, mseVars>>

\* trainer = Trainer(network=net, ..., loss_fun=lf, ...)
NewTrainer ==
    /\ net_args # NoArgs
    /\ loss_fun = NoArgs
    /\ \E lf \in StrObjects(LossNames) :
          LET r == TrainerInit(net, lf) IN
          /\ loss_fun' = [given |-> TRUE, value |-> lf.value,
                          interned |-> lf.interned]
          /\ trainer' = r.obj
          /\ trainer_exc' = r.exc
    /\ UNCHANGED <<net_args, net, net_exc>>
    /\ UNCHANGED <<trainVars, shuffleVars, prepVars, netVars, mseVars>>

CtorNext ==
    \/ NewNetwork
    \/ NewTrainer

----------------------------------------------------------------------------
(* Trainer.shuffle called on its own *)

\* The 2-D arrays of n rows and c columns over the entries 0..vmax
Arrays2(n, c, vmax) == {Array2(rows, c) : rows \in [1..n -> [1..c -> 0..vmax]]}

\* The 1-D arrays of n entries
Arrays1(n) == {Array1(values) : values \in [1..n -> 0..MaxValue]}

\* The target datasets of n data points: of shape (n, ) as the docstrings
\* of shuffle and train give it, or of shape (n, c) as example_main
\* passes it.
TargetDatasets(n) ==
    Arrays1(n) \cup UNION {Arrays2(n, c, MaxValue) : c \in 0..MaxShuffleCols}

ShuffleIdle ==
    /\ s_call = NoArgs
    /\ s_ret = NoArgs

\* Trainer.shuffle(input_dataset, target_dataset)
ShuffleCall ==
    /\ s_call = NoArgs
    /\ \E n \in 1..MaxShuffleRows :
       \E c \in 1..MaxShuffleCols :
       \E input_dataset \in Arrays2(n, c, MaxValue), target_dataset \in TargetDatasets(n),
          p \in Perms(n) :
          LET r == Shuffle(input_dataset, target_dataset, p) IN
          /\ s_call' = [given |-> TRUE, input_dataset |-> input_dataset,
                        target_dataset |-> target_dataset,
                        before |-> <<input_dataset, target_dataset>>]
          /\ s_ret' = [given |-> TRUE, exc |-> r.exc,
                       inputs |-> r.inputs, targets |-> r.targets]
    /\ UNCHANGED <<ctorVars, trainVars, prepVars, netVars, mseVars>>

ShuffleNext == ShuffleCall

----------------------------------------------------------------------------
(* Preprocessor *)

(***************************************************************************)
(* A float is modelled as an IEEE 754 binary64 value: nan, a signed        *)
(* infinity, or a finite value sign * mant * 2^exp, mant being zero (with  *)
(* exp 0; the sign of a zero is kept) or an odd natural number below 2^53. *)
(* Every operation returns the double nearest to the exact result, ties    *)
(* going to the even mantissa, with gradual underflow below 2^-1022 and    *)
(* overflow to an infinity from 2^1024 on.  numpy raises no exception on a *)
(* division by zero: it gives nan or a signed infinity (with a             *)
(* RuntimeWarning).  Mantissas do not fit the model checker's integers, so *)
(* naturals are kept as sequences of limbs, least significant first, with  *)
(* no leading zero limb: <<>> is 0.                                        *)
(***************************************************************************)

Abs(a) == IF a < 0 THEN -a ELSE a

LimbBits == 15

LimbBase == 2^LimbBits

RECURSIVE BigOf(_)
BigOf(n) == IF n = 0 THEN <<>> ELSE <<n % LimbBase>> \o BigOf(n \div LimbBase)

RECURSIVE BigTrim(_)
BigTrim(a) ==
    IF a # <<>> /\ a[Len(a)] = 0 THEN BigTrim(SubSeq(a, 1, Len(a) - 1)) ELSE a

Limb(a, i) == IF i <= Len(a) THEN a[i] ELSE 0

RECURSIVE AddFrom(_, _, _, _)
AddFrom(a, b, i, carry) ==
    IF i > Len(a) /\ i > Len(b) THEN (IF carry = 0 THEN <<>> ELSE <<carry>>)
    ELSE LET s == Limb(a, i) + Limb(b, i) + carry
         IN <<s % LimbBase>> \o AddFrom(a, b, i + 1, s \div LimbBase)

BigAdd(a, b) == AddFrom(a, b, 1, 0)

RECURSIVE SubFrom(_, _, _, _)
SubFrom(a, b, i, borrow) ==
    IF i > Len(a) THEN <<>>
    ELSE LET s == Limb(a, i) - Limb(b, i) - borrow
         IN <<s % LimbBase>> \o SubFrom(a, b, i + 1, IF s < 0 THEN 1 ELSE 0)

\* a - b for a >= b
BigSub(a, b) == BigTrim(SubFrom(a, b, 1, 0))

RECURSIVE CmpFrom(_, _, _)
CmpFrom(a, b, i) ==
    IF i = 0 THEN 0
    ELSE IF a[i] # b[i] THEN (IF a[i] > b[i] THEN 1 ELSE -1)
    ELSE CmpFrom(a, b, i - 1)

\* 1, 0 or -1 as a > b, a = b or a < b
BigCmp(a, b) ==
    IF Len(a) # Len(b) THEN (IF Len(a) > Len(b) THEN 1 ELSE -1)
    ELSE CmpFrom(a, b, Len(a))

RECURSIVE MulSmallFrom(_, _, _, _)
MulSmallFrom(a, m, i, carry) ==
    IF i > Len(a) THEN (IF carry = 0 THEN <<>> ELSE <<carry>>)
    ELSE LET p == a[i] * m + carry
         IN <<p % LimbBase>> \o MulSmallFrom(a, m, i + 1, p \div LimbBase)

\* a * m for 0 <= m < LimbBase
BigMulSmall(a, m) == IF m = 0 THEN <<>> ELSE MulSmallFrom(a, m, 1, 0)

\* a * LimbBase^k
ShiftLimbs(a, k) == IF a = <<>> THEN <<>> ELSE [i \in 1..k |-> 0] \o a

RECURSIVE BigMul(_, _)
BigMul(a, b) ==
    IF b = <<>> THEN <<>>
    ELSE BigAdd(BigMulSmall(a, b[1]), ShiftLimbs(BigMul(a, Tail(b)), 1))

\* a * 2^k
BigShl(a, k) == ShiftLimbs(BigMulSmall(a, 2^(k % LimbBits)), k \div LimbBits)

\* floor(a / 2)
BigHalf(a) ==
    BigTrim([i \in 1..Len(a) |->
                (a[i] \div 2) + (Limb(a, i + 1) % 2) * (LimbBase \div 2)])

BigOdd(a) == a # <<>> /\ a[1] % 2 = 1

RECURSIVE BitLen(_)
BitLen(n) == IF n = 0 THEN 0 ELSE 1 + BitLen(n \div 2)

\* The number of bits of a: 0 for 0, else floor(log2(a)) + 1
BigBitLen(a) ==
    IF a = <<>> THEN 0 ELSE LimbBits * (Len(a) - 1) + BitLen(a[Len(a)])

\* One step of the long division of r by d: `ds` is d * 2^i, `q` the
\* quotient bits found so far.
DivStep(s) ==
    LET ge == BigCmp(s.r, s.ds) >= 0
    IN [r |-> IF ge THEN BigSub(s.r, s.ds) ELSE s.r,
        ds |-> BigHalf(s.ds),
        q |-> BigAdd(BigShl(s.q, 1), IF ge THEN <<1>> ELSE <<>>),
        i |-> s.i - 1]

RECURSIVE DivLoop(_)
DivLoop(s) == IF s.i < 0 THEN s ELSE DivLoop(DivStep(s))

\* floor(n / d) and n mod d, d > 0
BigDivMod(n, d) ==
    IF d = <<1>> THEN [q |-> n, r |-> <<>>]
    ELSE LET i == IF BigBitLen(n) > BigBitLen(d)
                  THEN BigBitLen(n) - BigBitLen(d) ELSE 0
             s == DivLoop([r |-> n, ds |-> BigShl(d, i), q |-> <<>>, i |-> i])
         IN [q |-> s.q, r |-> s.r]

NaN == [kind |-> "nan"]

Inf(sign) == [kind |-> "inf", sign |-> sign]

Zero(sign) == [kind |-> "fin", sign |-> sign, mant |-> <<>>, exp |-> 0]

\* sign * m * 2^q with the trailing zero bits of m moved into the exponent
RECURSIVE Normal(_, _, _)
Normal(sign, m, q) ==
    IF BigOdd(m) THEN [kind |-> "fin", sign |-> sign, mant |-> m, exp |-> q]
    ELSE IF m[1] = 0 THEN Normal(sign, Tail(m), q + LimbBits)
    ELSE Normal(sign, BigHalf(m), q + 1)

\* The double nearest to sign * (n / d) * 2^e, for naturals n and d > 0:
\* `lg` is floor(log2(n / d)), 2^q the spacing of the doubles around the
\* value, m the value in units of 2^q rounded to the nearest integer, ties
\* to even.  A value below 2^-1075, half the smallest double, rounds to
\* zero.
RoundToDouble(sign, n, d, e) ==
    IF n = <<>> THEN Zero(sign)
    ELSE
    LET k == BigBitLen(n) - BigBitLen(d)
        lg == IF BigCmp(BigShl(n, IF k < 0 THEN -k ELSE 0),
                        BigShl(d, IF k > 0 THEN k ELSE 0)) >= 0
              THEN k ELSE k - 1
        q == IF e + lg - 52 > -1074 THEN e + lg - 52 ELSE -1074
        t == e - q
        ds == BigShl(d, IF t < 0 THEN -t ELSE 0)
        dm == BigDivMod(BigShl(n, IF t > 0 THEN t ELSE 0), ds)
        c == BigCmp(BigShl(dm.r, 1), ds)
        m == IF c > 0 \/ (c = 0 /\ BigOdd(dm.q)) THEN BigAdd(dm.q, <<1>>)
             ELSE dm.q
    IN IF e + lg < -1076 \/ m = <<>> THEN Zero(sign)
       ELSE IF BigBitLen(m) + q > 1024 THEN Inf(sign)
       ELSE Normal(sign, m, q)

\* float(num) / float(den) for two integers, den # 0
Fin(num, den) ==
    RoundToDouble(IF (num < 0) # (den < 0) THEN -1 ELSE 1,
                  BigOf(Abs(num)), BigOf(Abs(den)), 0)

\* 1, -1 or 0 as v > 0, v < 0 or v is a zero
Sign(v) == IF v.kind = "inf" THEN v.sign
           ELSE IF v.mant = <<>> THEN 0 ELSE v.sign

\* -a
FNeg(a) == IF a.kind = "nan" THEN a ELSE [a EXCEPT !.sign = -@]

\* In a sum, a term more than 2^60 times smaller than the other, which is
\* below 2^top, only decides on which side of the other the sum lies: any
\* value of its sign below a quarter of the spacing of the doubles there
\* rounds alike, and 2^(top - 60) stands for it.
Tiny(v, top) == [v EXCEPT !.mant = <<1>>, !.exp = top - 60]

\* a + b
FAdd(a, b) ==
    IF a.kind = "nan" \/ b.kind = "nan" THEN NaN
    ELSE IF a.kind = "inf" /\ b.kind = "inf"
    THEN (IF a.sign = b.sign THEN a ELSE NaN)
    ELSE IF a.kind = "inf" THEN a
    ELSE IF b.kind = "inf" THEN b
    ELSE IF a.mant = <<>> /\ b.mant = <<>>
    THEN Zero(IF a.sign = b.sign THEN a.sign ELSE 1)
    ELSE IF a.mant = <<>> THEN b
    ELSE IF b.mant = <<>> THEN a
    ELSE
    LET ea == a.exp + BigBitLen(a.mant)
        eb == b.exp + BigBitLen(b.mant)
        a1 == IF eb - ea > 60 THEN Tiny(a, eb) ELSE a
        b1 == IF ea - eb > 60 THEN Tiny(b, ea) ELSE b
        e == IF a1.exp < b1.exp THEN a1.exp ELSE b1.exp
        am == BigShl(a1.mant, a1.exp - e)
        bm == BigShl(b1.mant, b1.exp - e)
        c == BigCmp(am, bm)
    IN IF a.sign = b.sign THEN RoundToDouble(a.sign, BigAdd(am, bm), <<1>>, e)
       ELSE IF c = 0 THEN Zero(1)
       ELSE IF c > 0 THEN RoundToDouble(a.sign, BigSub(am, bm), <<1>>, e)
       ELSE RoundToDouble(b.sign, BigSub(bm, am), <<1>>, e)

\* a - b
FSub(a, b) == FAdd(a, FNeg(b))

\* a * b
FMul(a, b) ==
    IF a.kind = "nan" \/ b.kind = "nan" THEN NaN
    ELSE IF a.kind = "inf" \/ b.kind = "inf"
    THEN (IF Sign(a) = 0 \/ Sign(b) = 0 THEN NaN ELSE Inf(a.sign * b.sign))
    ELSE RoundToDouble(a.sign * b.sign, BigMul(a.mant, b.mant), <<1>>,
                       a.exp + b.exp)

\* a / b: x/0 is nan for x = 0 and a signed infinity otherwise
FDiv(a, b) ==
    IF a.kind = "nan" \/ b.kind = "nan" THEN NaN
    ELSE IF a.kind = "inf" /\ b.kind = "inf" THEN NaN
    ELSE IF a.kind = "inf" THEN Inf(a.sign * b.sign)
    ELSE IF b.kind = "inf" THEN Zero(a.sign * b.sign)
    ELSE IF b.mant = <<>>
    THEN (IF a.mant = <<>> THEN NaN ELSE Inf(a.sign * b.sign))
    ELSE RoundToDouble(a.sign * b.sign, a.mant, b.mant, a.exp - b.exp)

\* a == b as numpy compares floats: nan equals nothing, the two zeros are
\* equal
FEq(a, b) ==
    /\ a.kind # "nan"
    /\ b.kind # "nan"
    /\ a = b \/ (Sign(a) = 0 /\ Sign(b) = 0)

\* a <= b
FLe(a, b) ==
    /\ a.kind # "nan"
    /\ b.kind # "nan"
    /\ FEq(a, b) \/ Sign(FSub(b, a)) > 0

\* The float array of an array of integers
AsFloat(a) ==
    [a EXCEPT !.data = [i \in 1..a.shape[1] |->
                           [j \in 1..a.shape[2] |-> Fin(a.data[i][j], 1)]]]

\* np.max(data, axis = 0) and np.min(data, axis = 0) of an integer array
\* with at least one row: column j's largest and smallest entry.
ColumnMax(data) ==
    [j \in 1..data.shape[2] |->
        CHOOSE m \in {data.data[i][j] : i \in 1..data.shape[1]} :
            \A i \in 1..data.shape[1] : data.data[i][j] <= m]

ColumnMin(data) ==
    [j \in 1..data.shape[2] |->
        CHOOSE m \in {data.data[i][j] : i \in 1..data.shape[1]} :
            \A i \in 1..data.shape[1] : data.data[i][j] >= m]

\* Preprocessor.__init__(self, data)
PreprocessorInit(data) ==
    [class |-> "Preprocessor",
     max_data |-> [j \in 1..data.shape[2] |-> Fin(ColumnMax(data)[j], 1)],
     min_data |-> [j \in 1..data.shape[2] |-> Fin(ColumnMin(data)[j], 1)]]

\* Preprocessor.apply(self, data): (data - min_data)/(max_data - min_data),
\* min_data and max_data broadcast over the rows.
Apply(self, data) ==
    [data EXCEPT !.data = [i \in 1..data.shape[1] |->
        [j \in 1..data.shape[2] |->
            FDiv(FSub(data.data[i][j], self.min_data[j]),
                 FSub(self.max_data[j], self.min_data[j]))]]]

\* Preprocessor.revert(self, normalised_data):
\* min_data + normalised_data*(max_data - min_data)
Revert(self, normalised_data) ==
    [normalised_data EXCEPT !.data = [i \in 1..normalised_data.shape[1] |->
        [j \in 1..normalised_data.shape[2] |->
            FAdd(self.min_data[j],
                 FMul(normalised_data.data[i][j],
                      FSub(self.max_data[j], self.min_data[j])))]]]

PrepIdle ==
    /\ prep = NoObject
    /\ p_data = NoArgs
    /\ p_applied = NoArgs
    /\ p_reverted = NoArgs

\* prep = Preprocessor(data)
NewPreprocessor ==
    /\ prep = NoObject
    /\ \E n \in 1..MaxPrepRows, c \in 1..MaxPrepCols :
       \E data \in Arrays2(n, c, MaxPrepValue) :
          /\ prep' = PreprocessorInit(data)
          /\ p_data' = [given |-> FALSE, fit |-> data]
    /\ UNCHANGED <<p_applied, p_reverted>>
    /\ UNCHANGED <<ctorVars, trainVars, shuffleVars, netVars, mseVars>>

\* prep.apply(d), d being the fitting dataset or any other dataset with as
\* many columns
PrepApply ==
    /\ prep # NoObject
    /\ p_applied = NoArgs
    /\ \E n \in 1..MaxPrepRows :
       \E d \in Arrays2(n, p_data.fit.shape[2], MaxPrepValue) :
          /\ p_data' = [given |-> TRUE, fit |-> p_data.fit, d |-> d]
          /\ p_applied' = [given |-> TRUE, arr |-> Apply(prep, AsFloat(d))]
    /\ UNCHANGED <<prep, p_reverted>>
    /\ UNCHANGED <<ctorVars, trainVars, shuffleVars, netVars, mseVars>>

\* prep.revert(prep.apply(d))
PrepRevert ==
    /\ p_applied # NoArgs
    /\ p_reverted = NoArgs
    /\ p_reverted' = [given |-> TRUE, arr |-> Revert(prep, p_applied.arr)]
    /\ UNCHANGED <<prep, p_data, p_applied>>
    /\ UNCHANGED <<ctorVars, trainVars, shuffleVars, netVars, mseVars>>

PrepNext ==
    \/ NewPreprocessor
    \/ PrepApply
    \/ PrepRevert

----------------------------------------------------------------------------
(* The layers' forward and backward *)

(***************************************************************************)
(* An ndarray object is its identity and its shape.  The identity `id` is  *)
(* the place that created the object: <<site, layer, call>>, the call      *)
(* being the number of the network call during which it was created.  Two  *)
(* records with the same id are one object.  A gradient also says which    *)
(* value it is the gradient with respect to (`wrt`): <<i, "linear">> is    *)
(* the output of layer i's LinearLayer, <<i, "activation">> that of its    *)
(* activation, <<0, "input">> the network's input.  Layers are numbered    *)
(* from 0 as in the code.                                                  *)
(***************************************************************************)

NdArray(id, shape) == [class |-> "ndarray", id |-> id, shape |-> shape]

Gradient(id, shape, wrt) ==
    [class |-> "ndarray", id |-> id, shape |-> shape, wrt |-> wrt]

\* The shape of np.matmul(a, b) for 2-D shapes, or ValueError
MatMulShape(a, b) ==
    IF a[2] # b[1] THEN [exc |-> "ValueError", shape |-> <<>>]
    ELSE [exc |-> "none", shape |-> <<a[1], b[2]>>]

\* The shape two 2-D shapes broadcast to, or ValueError: a dimension of 1
\* takes the other shape's dimension, which may be 0.
BroadcastShape(a, b) ==
    IF \A k \in 1..2 : a[k] = b[k] \/ a[k] = 1 \/ b[k] = 1
    THEN [exc |-> "none",
          shape |-> <<IF a[1] = 1 THEN b[1] ELSE a[1],
                      IF a[2] = 1 THEN b[2] ELSE a[2]>>]
    ELSE [exc |-> "ValueError", shape |-> <<>>]

\* x.T
TransposeShape(a) == <<a[2], a[1]>>

\* What the gradient returned by a layer's backward is with respect to:
\* the layer's input, when grad_z is the gradient with respect to the
\* layer's output; no gradient of the loss otherwise.
InputOf(site, part) ==
    IF part = "activation" THEN <<site.layer, "linear">>
    ELSE IF site.layer = 0 THEN <<0, "input">>
    ELSE <<site.layer - 1, "activation">>

BackwardWrt(grad_z, site, part) ==
    IF grad_z.wrt = <<site.layer, part>> THEN InputOf(site, part)
    ELSE <<site.layer, "not a gradient of the loss">>

Raise(exc, self) == [exc |-> exc, self |-> self, out |-> NoObject]

\* LinearLayer.forward(self, x)
LinearForward(self, x, site) ==
    LET self1 == [self EXCEPT !.batch_size = x.shape[1],
                              !._cache_current = x,
                              !.cache_call = site.call]
        mm == MatMulShape(x.shape, self._W.shape)
        sum == BroadcastShape(mm.shape, self._b.shape)
    IN IF mm.exc # "none" THEN Raise(mm.exc, self1)
       ELSE IF sum.exc # "none" THEN Raise(sum.exc, self1)
       ELSE [exc |-> "none", self |-> self1,
             out |-> NdArray(<<"LinearLayer.forward", site.layer, site.call>>,
                             sum.shape)]

\* ReluLayer.forward(self, x) and SigmoidLayer.forward(self, x): a new
\* array of x's shape, kept as _cache_current and returned.
ActivationForward(self, x, site) ==
    LET out == NdArray(<<self.class \o ".forward", site.layer, site.call>>, x.shape)
    IN [exc |-> "none",
        self |-> [self EXCEPT !._cache_current = out, !.cache_call = site.call],
        out |-> out]

\* ReluLayer.backward(self, grad_z) and SigmoidLayer.backward(self, grad_z):
\* f_prime, a new array of the cache's shape computed from _cache_current,
\* is stored in self.f_prime; the result is grad_z times f_prime.  Without
\* a cache ReluLayer raises AttributeError (None.copy()) and SigmoidLayer
\* TypeError (1 - None), f_prime staying what it was.
ActivationBackward(self, grad_z, site) ==
    IF self._cache_current = NoObject
    THEN Raise(IF self.class = "ReluLayer" THEN "AttributeError" ELSE "TypeError",
               self)
    ELSE LET self1 == [self EXCEPT !.f_prime =
                         NdArray(<<self.class \o ".f_prime", site.layer, site.call>>,
                                 self._cache_current.shape)]
             prod == BroadcastShape(grad_z.shape, self1.f_prime.shape)
         IN IF prod.exc # "none" THEN Raise(prod.exc, self1)
            ELSE [exc |-> "none", self |-> self1,
                  out |-> Gradient(<<self.class \o ".backward", site.layer, site.call>>,
                                   prod.shape,
                                   BackwardWrt(grad_z, site, "activation"))]

\* The mutant forgets the transposition of x.
GradWShape_no_T(x, grad_z) == MatMulShape(x.shape, grad_z.shape)

\* np.matmul(x.T, grad_z)
GradWShape(x, grad_z) == MatMulShape(TransposeShape(x.shape), grad_z.shape)

\* LinearLayer.backward(self, grad_z)
LinearBackward(self, grad_z, site) ==
    IF self._cache_current = NoObject THEN Raise("AttributeError", self)
    ELSE
    LET x == self._cache_current
        gw == GradWShape(x, grad_z)
        self1 == [self EXCEPT !._grad_W_current =
                     Gradient(<<"_grad_W_current", site.layer, site.call>>,
                              gw.shape, <<site.layer, "_W">>)]
        gb == MatMulShape(<<1, self.batch_size>>, grad_z.shape)
        self2 == [self1 EXCEPT !._grad_b_current =
                     Gradient(<<"_grad_b_current", site.layer, site.call>>,
                              gb.shape, <<site.layer, "_b">>)]
        gx == MatMulShape(grad_z.shape, TransposeShape(self._W.shape))
    IN IF gw.exc # "none" THEN Raise(gw.exc, self)
       ELSE IF gb.exc # "none" THEN Raise(gb.exc, self1)
       ELSE IF gx.exc # "none" THEN Raise(gx.exc, self2)
       ELSE [exc |-> "none", self |-> self2,
             out |-> Gradient(<<"LinearLayer.backward", site.layer, site.call>>,
                              gx.shape, BackwardWrt(grad_z, site, "linear"))]

\* LinearLayer.update_params(self, learning_rate): in place, so _W and _b
\* stay the objects they were; TypeError without stored gradients
\* (learning_rate*None), ValueError if a gradient does not broadcast to the
\* parameter's shape.
LinearUpdate(self) ==
    IF self._grad_W_current = NoObject THEN "TypeError"
    ELSE IF BroadcastShape(self._W.shape, self._grad_W_current.shape)
               # [exc |-> "none", shape |-> self._W.shape] THEN "ValueError"
    ELSE IF self._grad_b_current = NoObject THEN "TypeError"
    ELSE IF BroadcastShape(self._b.shape, self._grad_b_current.shape)
               # [exc |-> "none", shape |-> self._b.shape] THEN "ValueError"
    ELSE "none"

----------------------------------------------------------------------------
(* MultiLayerNetwork.forward, backward and update_params *)

\* range(start, stop, step) for step 1 or -1, as the sequence of its values
PyRange(start, stop, step) ==
    LET n == IF step > 0 THEN Max(stop - start, 0) ELSE Max(start - stop, 0)
    IN [k \in 1..n |-> start + (k - 1) * step]

\* range(len(self.neurons)): the order in which forward visits the layers
ForwardRange(self) == PyRange(0, Len(self.neurons), 1)

\* The mutant walks the layers first to last.
BackwardRange_ascending(self) == PyRange(0, Len(self.neurons), 1)

\* range(len(self.neurons)-1,-1,-1): the order in which backward and
\* update_params visit the layers
BackwardRange(self) == PyRange(Len(self.neurons) - 1, -1, -1)

\* self._layers[i][0] is the LinearLayer, self._layers[i][1] the activation
PartIndex(part) == IF part = "linear" THEN 1 ELSE 2

NoFrame == [op |-> "none"]

NetIdle ==
    /\ n_net = NoObject
    /\ n_pc = "new"
    /\ n_frame = NoFrame
    /\ n_calls = 0
    /\ n_log = <<>>
    /\ n_last = [forward |-> NoArgs, backward |-> NoArgs]

\* net = MultiLayerNetwork(input_dim, neurons, activations), one activation
\* named for each layer
NetNew ==
    /\ n_pc = "new"
    /\ \E input_dim \in 1..MaxDim, neurons \in SeqsUpTo(1..MaxDim, MaxLayers) :
       \E activations \in [1..Len(neurons) -> ActivationNames] :
          LET r == MultiLayerNetworkInit(input_dim, neurons, activations) IN
          /\ n_net' = r.obj
          /\ n_pc' = IF r.exc # "none" THEN "raised" ELSE "ready"
    /\ UNCHANGED <<n_frame, n_calls, n_log, n_last>>
    /\ UNCHANGED <<ctorVars, trainVars, shuffleVars, prepVars, mseVars>>

\* The state a forward or backward pass carries from one layer call to the
\* next: the network's objects, the value passed on, the layer calls made
\* so far, and the exception that ended the pass, if any.
PassBegin(self, x) == [net |-> self, x |-> x, log |-> <<>>, exc |-> "none"]

\* One layer call of a pass: the layer object is replaced by its state
\* after the call, the call is logged and its result passed on; after an
\* exception no further call is made.
LayerCall(st, op, layer, part, call) ==
    IF st.exc # "none" THEN st
    ELSE
    LET self == st.net._layers[layer + 1][PartIndex(part)]
        site == [layer |-> layer, call |-> call]
        r == IF op = "forward"
             THEN IF part = "linear" THEN LinearForward(self, st.x, site)
                  ELSE ActivationForward(self, st.x, site)
             ELSE IF part = "linear" THEN LinearBackward(self, st.x, site)
                  ELSE ActivationBackward(self, st.x, site)
    IN [net |-> [st.net EXCEPT !._layers[layer + 1][PartIndex(part)] = r.self],
        x |-> r.out,
        log |-> Append(st.log, [layer |-> layer, part |-> part,
                                arg |-> st.x, ret |-> r.out,
                                cache_call |-> r.self.cache_call]),
        exc |-> r.exc]

\* x = self._layers[i][1].forward(self._layers[i][0].forward(x)): the inner
\* call, on the LinearLayer, runs first.
ForwardLayer(st, i, call) ==
    LayerCall(LayerCall(st, "forward", i, "linear", call),
              "forward", i, "activation", call)

\* grad_z = self._layers[layer_n][0].backward(
\*              self._layers[layer_n][1].backward(grad_z)): the inner call,
\* on the activation, runs first.
BackwardLayer(st, layer_n, call) ==
    LayerCall(LayerCall(st, "backward", layer_n, "activation", call),
              "backward", layer_n, "linear", call)

\* The for loop of forward or backward over order[k..]
RECURSIVE LayerLoop(_, _, _, _, _)
LayerLoop(st, op, order, k, call) ==
    IF k > Len(order) THEN st
    ELSE LayerLoop(IF op = "forward" THEN ForwardLayer(st, order[k], call)
                   ELSE BackwardLayer(st, order[k], call),
                   op, order, k + 1, call)

\* net.forward(x): the loop over the layers, then return x
Forward ==
    /\ n_pc = "ready"
    /\ n_calls < MaxCalls
    /\ \E b \in 1..MaxNetBatch, d \in 1..MaxDim :
          LET call == n_calls + 1
              x == NdArray(<<"x", 0, call>>, <<b, d>>)
          IN \E r \in {LayerLoop(PassBegin(n_net, x), "forward",
                                 ForwardRange(n_net), 1, call)} :
             /\ n_net' = r.net
             /\ n_log' = r.log
             /\ n_frame' = [op |-> "forward", arg |-> x, call |-> call,
                            x |-> r.x]
             /\ n_pc' = IF r.exc # "none" THEN "raised" ELSE "ready"
             /\ n_last' = IF r.exc # "none" THEN n_last
                          ELSE [n_last EXCEPT !.forward =
                                   [given |-> TRUE, call |-> call,
                                    x |-> x, ret |-> r.x]]
    /\ n_calls' = n_calls + 1
    /\ UNCHANGED <<ctorVars, trainVars, shuffleVars, prepVars, mseVars>>

\* What the caller's grad_z is the gradient with respect to: the network's
\* output
NetworkOutput(self) ==
    IF Len(self.neurons) = 0 THEN <<0, "input">>
    ELSE <<Len(self.neurons) - 1, "activation">>

\* net.backward(grad_z): the loop over the layers, then return grad_z
Backward ==
    /\ n_pc = "ready"
    /\ n_calls < MaxCalls
    /\ \E b \in 1..MaxNetBatch, d \in 1..MaxDim :
          LET call == n_calls + 1
              grad_z == Gradient(<<"grad_z", 0, call>>, <<b, d>>,
                                 NetworkOutput(n_net))
          IN \E r \in {LayerLoop(PassBegin(n_net, grad_z), "backward",
                                 BackwardRange(n_net), 1, call)} :
             /\ n_net' = r.net
             /\ n_log' = r.log
             /\ n_frame' = [op |-> "backward", arg |-> grad_z, call |-> call,
                            x |-> r.x]
             /\ n_pc' = IF r.exc # "none" THEN "raised" ELSE "ready"
             /\ n_last' = IF r.exc # "none" THEN n_last
                          ELSE [n_last EXCEPT !.backward =
                                   [given |-> TRUE, call |-> call,
                                    grad_z |-> grad_z, ret |-> r.x]]
    /\ n_calls' = n_calls + 1
    /\ UNCHANGED <<ctorVars, trainVars, shuffleVars, prepVars, mseVars>>

\* net.update_params(learning_rate): every LinearLayer's update_params, in
\* place; the first exception ends the call.
UpdateParams ==
    /\ n_pc = "ready"
    /\ n_calls < MaxCalls
    /\ n_calls' = n_calls + 1
    /\ n_frame' = [op |-> "update_params", call |-> n_calls + 1]
    /\ n_log' = <<>>
    /\ n_pc' = IF \E i \in 1..Len(n_net._layers) :
                     LinearUpdate(n_net._layers[i][1]) # "none"
               THEN "raised" ELSE "ready"
    /\ UNCHANGED <<n_net, n_last>>
    /\ UNCHANGED <<ctorVars, trainVars, shuffleVars, prepVars, mseVars>>

NetNext ==
    \/ NetNew
    \/ Forward
    \/ Backward
    \/ UpdateParams

----------------------------------------------------------------------------
(* MSELossLayer *)

RECURSIVE SumSeq(_)
SumSeq(q) == IF q = <<>> THEN 0 ELSE q[1] + SumSeq(Tail(q))

\* The sum over all the entries of (y_pred - y_target) ** 2, for integer
\* arrays
SquaredErrorSum(y_pred, y_target) ==
    SumSeq([i \in 1..y_pred.shape[1] |->
              SumSeq([j \in 1..y_pred.shape[2] |->
                        (y_pred.data[i][j] - y_target.data[i][j])
                      * (y_pred.data[i][j] - y_target.data[i][j])])])

\* MSELossLayer._mse(y_pred, y_target) for integer arrays:
\* np.mean((y_pred - y_target) ** 2), the sum of the entries as a float
\* divided by their number; of an array with no entry it is 0.0/0, nan
\* (with a RuntimeWarning, no exception).
Mse(y_pred, y_target) ==
    FDiv(Fin(SquaredErrorSum(y_pred, y_target), 1),
         Fin(y_pred.shape[1] * y_pred.shape[2], 1))

\* MSELossLayer._mse_grad(y_pred, y_target):
\* 2 * (y_pred - y_target) / len(y_pred), len being the number of rows
MseGrad(y_pred, y_target) ==
    [y_pred EXCEPT !.data = [i \in 1..y_pred.shape[1] |->
        [j \in 1..y_pred.shape[2] |->
            Fin(2 * (y_pred.data[i][j] - y_target.data[i][j]), Len(y_pred.data))]]]

\* MSELossLayer.__init__
MSELossLayerInit == [class |-> "MSELossLayer", _cache_current |-> NoObject]

MseIdle ==
    /\ m_layer = MSELossLayerInit
    /\ m_loss = NoArgs
    /\ m_grad = NoArgs

\* MSELossLayer.forward(self, y_pred, y_target)
MseForward ==
    /\ m_loss = NoArgs
    /\ \E b \in 0..MaxLossRows, d \in 0..MaxLossCols :
       \E y_pred \in Arrays2(b, d, MaxLossValue),
          y_target \in Arrays2(b, d, MaxLossValue) :
          /\ m_layer' = [m_layer EXCEPT !._cache_current = <<y_pred, y_target>>]
          /\ m_loss' = [given |-> TRUE, value |-> Mse(y_pred, y_target)]
    /\ UNCHANGED m_grad
    /\ UNCHANGED <<ctorVars, trainVars, shuffleVars, prepVars, netVars>>

\* MSELossLayer.backward(self): TypeError without a cache (*None); `cache`
\* records the (y_pred, y_target) the gradient was computed from.
MseBackward ==
    /\ m_grad = NoArgs
    /\ m_grad' = IF m_layer._cache_current = NoObject
                 THEN [given |-> TRUE, exc |-> "TypeError", arr |-> NoObject,
                       cache |-> NoObject]
                 ELSE [given |-> TRUE, exc |-> "none",
                       arr |-> MseGrad(m_layer._cache_current[1],
                                       m_layer._cache_current[2]),
                       cache |-> m_layer._cache_current]
    /\ UNCHANGED <<m_layer, m_loss>>
    /\ UNCHANGED <<ctorVars, trainVars, shuffleVars, prepVars, netVars>>

MseNext ==
    \/ MseForward
    \/ MseBackward

----------------------------------------------------------------------------
(* Specifications: one per part of the library, the other parts idle *)

AllIdle ==
    CtorIdle /\ TrainIdle /\ ShuffleIdle /\ PrepIdle /\ NetIdle /\ MseIdle

SpecCtor == AllIdle /\ [][CtorNext]_vars

SpecTrain == AllIdle /\ [][TrainNext]_vars

SpecShuffle == AllIdle /\ [][ShuffleNext]_vars

SpecPrep == AllIdle /\ [][PrepNext]_vars

SpecNet == AllIdle /\ [][NetNext]_vars

SpecMse == AllIdle /\ [][MseNext]_vars

----------------------------------------------------------------------------
(* Properties of Trainer.train *)

CeilDiv(a, b) == (a + b - 1) \div b

\* The batches of one full pass over n_rows rows in batches of batch_size
BatchesPerEpoch == CeilDiv(t_self.n_rows, t_self.batch_size)

TrainOps == <<"forward", "loss", "backward", "update_params">>

\* forward, loss, backward, update_params for batch 0, 1, ... of epoch 0,
\* then of epoch 1, ...
ExpectedCalls ==
    [i \in 1..(4 * BatchesPerEpoch * t_self.nb_epoch) |->
        <<TrainOps[((i - 1) % 4) + 1],
          [epoch |-> (i - 1) \div (4 * BatchesPerEpoch),
           k |-> ((i - 1) % (4 * BatchesPerEpoch)) \div 4]>>]

InBatchLoop == t_pc \in {"batch", "forwarded", "loss", "backwarded"}

\* C1: train performs, nb_epoch times and for each batch of the epoch in
\* order, forward on the batch's inputs, the loss against the batch's
\* targets, backward with the loss gradient of that same batch and one
\* update_params; no backward or update uses a cache or gradient of another
\* batch; the updates number nb_epoch times the batches per epoch.
C1_TrainStepsPerBatch ==
    /\ t_pc \in {"done", "raised"} =>
          /\ t_pc = "done"
          /\ t_calls = ExpectedCalls
          /\ t_net.n_updates = t_self.nb_epoch * BatchesPerEpoch
    /\ t_pc \in {"forwarded", "loss", "backwarded"} =>
          /\ t_net.cache.of = BatchId
          /\ t_net.cache.rows = InputColumns(CurrentBatch, t_data.target_dataset)
    /\ t_pc \in {"loss", "backwarded"} =>
          /\ t_net.grad_z.of = BatchId
          /\ t_net.grad_z.pred.of = BatchId
          /\ t_net.grad_z.rows = TargetColumns(CurrentBatch, t_data.target_dataset)
    /\ t_pc = "backwarded" =>
          /\ t_net.grads.of = BatchId
          /\ t_net.grads.cache.of = BatchId
          /\ t_net.grads.grad_z.of = BatchId

\* C2: for N >= 1 rows and batch_size >= 1 each epoch's batches are one
\* full pass: every row (input with its own target) lies in exactly one
\* batch, every batch is non-empty, and every batch has batch_size rows
\* except possibly the last, which holds the N mod batch_size others.
C2_BatchesPartitionDataset ==
    (t_self.given /\ t_self.n_rows >= 1 /\ t_self.batch_size >= 1) =>
        /\ t_pc # "raised"
        /\ InBatchLoop =>
              LET bl == t_loop.batch_list IN
              /\ Len(bl) = BatchesPerEpoch
              /\ \A b \in 1..Len(bl) : bl[b].shape[1] >= 1
              /\ \A b \in 1..(Len(bl) - 1) : bl[b].shape[1] = t_self.batch_size
              /\ bl[Len(bl)].shape[1] \in
                    {t_self.batch_size, t_self.n_rows % t_self.batch_size}
              /\ \A r \in 1..t_self.n_rows :
                    Cardinality({<<b, i>> \in (1..Len(bl)) \X (1..MaxBatch) :
                                    /\ i <= bl[b].shape[1]
                                    /\ bl[b].data[i] = <<r, r>>}) = 1

----------------------------------------------------------------------------
(* Properties of Trainer.shuffle *)

\* Row i of a dataset, whatever its number of dimensions
DataRow(a, i) == a.data[i]

\* C6: shuffle returns shuffled versions of its inputs: one row
\* permutation applied to both, so that each returned input row is still
\* beside its own target row, the returned shapes equal the argument
\* shapes, and the caller's arrays are not modified.
C6_ShuffleSamePermutation ==
    s_ret.given =>
        /\ s_ret.exc = "none"
        /\ s_ret.inputs.shape = s_call.input_dataset.shape
        /\ s_ret.targets.shape = s_call.target_dataset.shape
        /\ \E p \in Perms(s_call.input_dataset.shape[1]) :
              \A i \in 1..s_call.input_dataset.shape[1] :
                 /\ DataRow(s_ret.inputs, i) = DataRow(s_call.input_dataset, p[i])
                 /\ DataRow(s_ret.targets, i) = DataRow(s_call.target_dataset, p[i])
        /\ s_call.before = <<s_call.input_dataset, s_call.target_dataset>>

----------------------------------------------------------------------------
(* Properties of the Preprocessor *)

Entries(a) == (1..a.shape[1]) \X (1..a.shape[2])

\* C7: revert(apply(d)) equals d element for element, for a Preprocessor
\* built from any fitting dataset and any d with as many columns; and apply
\* of the fitting dataset has every value in [0, 1], each column's minimum
\* mapped to 0 and its maximum to 1.
C7_RevertRetrievesOriginal ==
    /\ p_reverted # NoArgs =>
          \A e \in Entries(p_data.d) :
             FEq(p_reverted.arr.data[e[1]][e[2]], Fin(p_data.d.data[e[1]][e[2]], 1))
    /\ (p_applied # NoArgs /\ p_data.d = p_data.fit) =>
          \A e \in Entries(p_data.fit) :
             LET v == p_applied.arr.data[e[1]][e[2]]
                 x == p_data.fit.data[e[1]][e[2]]
             IN /\ FLe(Fin(0, 1), v)
                /\ FLe(v, Fin(1, 1))
                /\ x = ColumnMin(p_data.fit)[e[2]] => FEq(v, Fin(0, 1))
                /\ x = ColumnMax(p_data.fit)[e[2]] => FEq(v, Fin(1, 1))

----------------------------------------------------------------------------
(* Properties of the network's forward and backward *)

NumLayers == Len(n_net.neurons)

\* The last forward had an input of shape (batch_size, input_dim)
ForwardWellShaped(x) == x.shape[2] = n_net.input_dim

\* A gradient of shape (batch_size, neurons[-1]) for the batch size of x
GradientWellShaped(grad_z, x) ==
    grad_z.shape = <<x.shape[1], n_net.neurons[NumLayers]>>

\* C8: forward of an input of shape (batch_size, input_dim) returns an
\* array of shape (batch_size, neurons[-1]); a following backward with a
\* gradient of shape (batch_size, neurons[-1]) returns an array of shape
\* (batch_size, input_dim) and leaves in every LinearLayer a weight
\* gradient of the weights' shape (n_in, n_out) and a bias gradient of the
\* bias' shape (1, n_out).
C8_ShapeConsistency ==
    (n_net # NoObject /\ NumLayers >= 1) =>
    /\ (n_frame.op = "forward" /\ ForwardWellShaped(n_frame.arg)) =>
          /\ n_pc = "ready"
          /\ n_last.forward.call = n_frame.call
    /\ (n_last.forward.given /\ ForwardWellShaped(n_last.forward.x)) =>
          n_last.forward.ret.shape =
             <<n_last.forward.x.shape[1], n_net.neurons[NumLayers]>>
    /\ (/\ n_frame.op = "backward"
        /\ n_last.forward.given
        /\ ForwardWellShaped(n_last.forward.x)
        /\ GradientWellShaped(n_frame.arg, n_last.forward.x)) =>
          /\ n_pc = "ready"
          /\ n_last.backward.call = n_frame.call
    /\ (/\ n_pc = "ready"
        /\ n_last.backward.given
        /\ n_last.forward.given
        /\ n_last.backward.call > n_last.forward.call
        /\ ForwardWellShaped(n_last.forward.x)
        /\ GradientWellShaped(n_last.backward.grad_z, n_last.forward.x)) =>
          /\ n_last.backward.ret.shape =
                <<n_last.forward.x.shape[1], n_net.input_dim>>
          /\ \A i \in 1..NumLayers :
                LET lin == n_net._layers[i][1] IN
                /\ lin._grad_W_current.shape = lin._W.shape
                /\ lin._W.shape = <<lin.n_in, lin.n_out>>
                /\ lin._grad_b_current.shape = lin._b.shape
                /\ lin._b.shape = <<1, lin.n_out>>

\* C8 witness: a two-layer network whose forward and following backward,
\* both well-shaped with a batch of 2, have returned, the input and output
\* widths differing.
C8_Witness ==
    /\ n_net # NoObject
    /\ NumLayers = 2
    /\ n_net.input_dim # n_net.neurons[2]
    /\ n_net.neurons[1] # n_net.neurons[2]
    /\ n_pc = "ready"
    /\ n_frame.op = "backward"
    /\ n_last.forward.given
    /\ n_last.backward.given
    /\ n_last.backward.call = n_frame.call
    /\ n_last.backward.call > n_last.forward.call
    /\ n_last.forward.x.shape = <<2, n_net.input_dim>>
    /\ GradientWellShaped(n_last.backward.grad_z, n_last.forward.x)
    /\ n_last.backward.ret.shape = <<2, n_net.input_dim>>

\* The layer calls of a forward: layer 0's LinearLayer, layer 0's
\* activation, layer 1's LinearLayer, ..., each fed the one before's output
ForwardLogInOrder ==
    \A j \in 1..Len(n_log) :
       /\ n_log[j].layer = (j - 1) \div 2
       /\ n_log[j].part = IF j % 2 = 1 THEN "linear" ELSE "activation"
       /\ n_log[j].arg = IF j = 1 THEN n_frame.arg ELSE n_log[j - 1].ret

\* The layer calls of a backward: the last layer's activation, its
\* LinearLayer, the activation of the layer before, ...; each is given the
\* one before's result, which is the gradient with respect to its own
\* output, and each that returns used a cache written during the most
\* recent forward.
BackwardLogInOrder ==
    \A j \in 1..Len(n_log) :
       /\ n_log[j].layer = NumLayers - 1 - ((j - 1) \div 2)
       /\ n_log[j].part = IF j % 2 = 1 THEN "activation" ELSE "linear"
       /\ n_log[j].arg = IF j = 1 THEN n_frame.arg ELSE n_log[j - 1].ret
       /\ n_log[j].arg.wrt = <<n_log[j].layer, n_log[j].part>>
       /\ n_log[j].ret # NoObject =>
             /\ n_last.forward.given
             /\ n_log[j].cache_call = n_last.forward.call

\* C10: forward applies the layers in index order, LinearLayer then
\* activation, feeding each output to the next; backward visits them in
\* the exact reverse order, activation then LinearLayer, so that every
\* layer's backward receives the gradient with respect to its own output
\* and uses the cache its own forward wrote in the most recent forward.
C10_ForwardBackwardOrder ==
    /\ n_frame.op = "forward" =>
          /\ ForwardLogInOrder
          /\ n_pc = "ready" =>
                /\ Len(n_log) = 2 * NumLayers
                /\ NumLayers >= 1 => n_frame.x = n_log[Len(n_log)].ret
    /\ n_frame.op = "backward" =>
          /\ BackwardLogInOrder
          /\ n_pc = "ready" =>
                /\ Len(n_log) = 2 * NumLayers
                /\ n_frame.x.wrt = <<0, "input">>

\* C10 witness: the backward of a two-layer network has made its four
\* layer calls and returned, after a second forward pass.
C10_Witness ==
    /\ n_pc = "ready"
    /\ n_frame.op = "backward"
    /\ NumLayers = 2
    /\ Len(n_log) = 4
    /\ n_log[1].layer = 1
    /\ n_log[4].layer = 0
    /\ n_last.forward.call = 2
    /\ n_log[4].cache_call = 2

\* The Layer objects of the network: self._layers[i][0] and
\* self._layers[i][1] for every layer i (numbered from 0)
LayerObjects == (0..(NumLayers - 1)) \X {"linear", "activation"}

\* The array objects one Layer object stores.  _W and _b are created by
\* the LinearLayer's own constructor and only ever updated in place, so
\* each is one object for the life of the layer; the cache, the stored
\* gradients and an activation's f_prime are the objects last assigned.
HeldArrays(lo) ==
    LET self == n_net._layers[lo[1] + 1][PartIndex(lo[2])]
        Ids(fields) == {a.id : a \in {f \in fields : f.class = "ndarray"}}
    IN IF lo[2] = "linear"
       THEN {<<"_W", lo[1], 0>>, <<"_b", lo[1], 0>>}
               \cup Ids({self._cache_current, self._grad_W_current,
                         self._grad_b_current})
       ELSE Ids({self._cache_current, self.f_prime})

\* The arrays the caller holds as the results of the last forward and the
\* last backward that returned
ReturnedArrays ==
    (IF n_last.forward.given THEN {n_last.forward.ret.id} ELSE {})
       \cup (IF n_last.backward.given THEN {n_last.backward.ret.id} ELSE {})

\* C11: after any sequence of forward, backward and update_params calls, no
\* array stored in one layer object (weights, bias, forward cache, stored
\* gradients) is the same object as an array stored in another layer
\* object or as an array returned to the caller.
C11_ArraysOwnedUniquely ==
    n_net # NoObject =>
    /\ \A lo1, lo2 \in LayerObjects :
          lo1 # lo2 => HeldArrays(lo1) \cap HeldArrays(lo2) = {}
    /\ \A lo \in LayerObjects : HeldArrays(lo) \cap ReturnedArrays = {}

----------------------------------------------------------------------------
(* Properties of MSELossLayer *)

\* y_pred with entry (i, j) moved by h
Nudged(y_pred, i, j, h) == [y_pred EXCEPT !.data[i][j] = @ + h]

\* The partial derivative of the scalar forward returns with respect to
\* y_pred[i, j], as the ratio <<numerator, denominator>> of two integers.
\* The scalar is a quadratic in that entry, for which the central
\* difference quotient with step 1 is the derivative exactly.
PartialDerivative(y_pred, y_target, i, j) ==
    <<SquaredErrorSum(Nudged(y_pred, i, j, 1), y_target)
         - SquaredErrorSum(Nudged(y_pred, i, j, -1), y_target),
      2 * y_pred.shape[1] * y_pred.shape[2]>>

\* C9: MSELossLayer.backward returns the gradient of the scalar returned
\* by forward with respect to y_pred: entry (i, j) is the partial
\* derivative of mean((y_pred - y_target)^2) with respect to y_pred[i, j],
\* as a float, for every shape (batch_size, d), d >= 1.
C9_BackwardIsGradientOfForward ==
    (m_grad.given /\ m_grad.cache # NoObject) =>
        /\ m_grad.exc = "none"
        /\ \A e \in Entries(m_grad.cache[1]) :
              LET pd == PartialDerivative(m_grad.cache[1], m_grad.cache[2],
                                          e[1], e[2])
              IN FEq(m_grad.arr.data[e[1]][e[2]], Fin(pd[1], pd[2]))

----------------------------------------------------------------------------
(* Properties of construction *)

UsedActivations == 1..Min(Len(net_args.neurons), Len(net_args.activations))

NetworkRaised == net_exc # "none" /\ net = NoObject

TrainerRaised == trainer_exc # "none" /\ trainer = NoObject

\* C3 (as stated): MultiLayerNetwork construction raises for any
\* activations list containing a name other than "relu", "linear" or
\* "sigmoid", and Trainer construction raises for any loss_fun other than
\* "mse" or "softmax_cross_entropy"; no object results.
C3_RaisesOnAnyUnknownName ==
    /\ (net_args.given /\ \E i \in 1..Len(net_args.activations) :
            net_args.activations[i] \notin RecognisedActivations)
       => NetworkRaised
    /\ (loss_fun.given /\ loss_fun.value \notin {"mse", "softmax_cross_entropy"})
       => TrainerRaised

\* C3 (amended): MultiLayerNetwork construction raises when an unrecognised
\* name stands at a position of the activations list that a layer uses
\* (index < len(neurons)); entries past len(neurons) are never looked up.
\* Trainer construction raises for any loss_fun other than "mse" or
\* "softmax_cross_entropy".  In both cases no object results.
C3_RaisesOnUnknownUsedName ==
    /\ (net_args.given /\ \E i \in UsedActivations :
            net_args.activations[i] \notin RecognisedActivations)
       => NetworkRaised
    /\ (loss_fun.given /\ loss_fun.value \notin {"mse", "softmax_cross_entropy"})
       => TrainerRaised

\* C3 witness: an unknown activation at a used position raised
\* AssertionError, and an unknown loss name raised.
C3_Witness ==
    /\ net_args.given
    /\ \E i \in UsedActivations :
          net_args.activations[i] \notin RecognisedActivations
    /\ net_exc = "AssertionError"
    /\ loss_fun.given
    /\ loss_fun.value = "cross_entropy"
    /\ trainer_exc = "Exception"

\* The kind of activation layer a recognised name names.
KindNamed(name) ==
    IF name = "relu" THEN "ReluLayer"
    ELSE IF name = "sigmoid" THEN "SigmoidLayer"
    ELSE "LinearLayer"

\* C4: for input_dim >= 1, a non-empty neurons list and an activations
\* list of the same length with recognised names only, construction
\* succeeds with len(neurons) layers, layer i pairing a LinearLayer of
\* n_in = ([input_dim] + neurons)[i], n_out = neurons[i] with the
\* activation layer named by activations[i].
C4_ConstructionSucceeds ==
    (/\ net_args.given
     /\ net_args.input_dim >= 1
     /\ Len(net_args.neurons) >= 1
     /\ Len(net_args.activations) = Len(net_args.neurons)
     /\ \A i \in 1..Len(net_args.activations) :
           net_args.activations[i] \in RecognisedActivations)
    => /\ net_exc = "none"
       /\ net # NoObject
       /\ Len(net._layers) = Len(net_args.neurons)
       /\ \A i \in 1..Len(net_args.neurons) :
             /\ net._layers[i][1].class = "LinearLayer"
             /\ net._layers[i][1].n_in =
                   feature_list(net_args.input_dim, net_args.neurons)[i]
             /\ net._layers[i][1].n_out = net_args.neurons[i]
             /\ net._layers[i][2].class = KindNamed(net_args.activations[i])

\* C5: the loss layer is selected by the value of loss_fun, however the
\* string object was produced, and every name the docstring lists is
\* accepted.
C5_LossSelectedByValue ==
    loss_fun.given =>
        /\ loss_fun.value = "mse" =>
              trainer_exc = "none" /\ trainer._loss_layer = "MSELossLayer"
        /\ loss_fun.value = "softmax_cross_entropy" =>
              trainer_exc = "none" /\ trainer._loss_layer = "CrossEntropyLossLayer"
        /\ loss_fun.value \in DocstringLossNames => trainer_exc = "none"

=============================================================================
